---- MODULE Spec2Model ----
(***************************************************************************)
(* Movement-control engine of the terrE robot agent, in its two variants:  *)
(*   "ws"    src/webserver.py            (socket.io client, raw thresholds)*)
(*   "flask" src/flask-direct-server.py  (flask-socketio server, presets)  *)
(*                                                                         *)
(* The module-level globals (movement, movement_thread, current_direction, *)
(* wheel_thresholds, stop_timer) and the PWM channels are shared without a *)
(* lock by three kinds of Python threads: the transport's handler threads, *)
(* the threading.Timer threads of the watchdog and the move_loop threads.  *)
(* A step of the model is one read or one write of a global or of a        *)
(* channel (the interpreter lock makes each of those atomic), so every     *)
(* interleaving the interpreter can produce is a behaviour of the model.   *)
(*                                                                         *)
(* Throttles are integers in tenths (5 stands for 0.5).  None is 0 for the *)
(* two handles (thread and timer ids start at 1) and "None" for the        *)
(* direction.                                                              *)
(***************************************************************************)
EXTENDS Integers, Sequences, FiniteSets, TLC

\* Bounds of the model: the commands of a run, the move commands among them
\* (each creates at most one thread and one timer) and the handler threads
\* the transport runs at once.
MaxCmds == 2
MaxMoves == 3
MaxHandlers == 1

Variants == {"ws", "flask"}
Threads == 1..MaxMoves
Timers == 1..MaxMoves
Handlers == (MaxMoves + 1)..(MaxMoves + MaxHandlers)
Execs == Timers \cup Handlers
Wheels == 0..3

VARIABLES
    variant,            \* which of the two programs runs
    movement,           \* global movement
    movement_thread,    \* global movement_thread: a thread id, 0 for None
    current_direction,  \* global current_direction
    wheel_thresholds,   \* global wheel_thresholds, indexed 1..4 for wheels 0..3
    stop_timer,         \* global stop_timer: a timer id, 0 for None
    channels,           \* PWM off-count / duty cycle of channels 0..3
    lift_channel,       \* PWM off-count / duty cycle of channel 4 (the lift)
    loops,              \* the move_loop threads: state, position, locals
    timers,             \* the threading.Timer objects: their state
    ex,                 \* frames of handler threads and timer callbacks
    script,             \* the commands of the run, in the order of delivery
    pos,                \* how many of them the transport has delivered
    nmove,              \* move commands delivered so far
    raised              \* exceptions raised so far (history)

vars == <<variant, movement, movement_thread, current_direction,
          wheel_thresholds, stop_timer, channels, lift_channel, loops, timers,
          ex, script, pos, nmove, raised>>

globals == <<movement, movement_thread, current_direction, wheel_thresholds,
             stop_timer>>

(***************************************************************************)
(* Pulse arithmetic.                                                       *)
(***************************************************************************)
Max(a, b) == IF a >= b THEN a ELSE b
Min(a, b) == IF a <= b THEN a ELSE b

\* webserver.py: servo constants in microseconds.
WS_SERVO_MIN_PULSE == 1000
WS_SERVO_MAX_PULSE == 2000
WS_SERVO_NEUTRAL == 1500

\* flask-direct-server.py: servo constants in counts out of 4096.
SERVO_MIN_PULSE == 150
SERVO_MAX_PULSE == 600
SERVO_NEUTRAL == 375

\* webserver.py pulse_to_bits: int(pulse_us / 1000000 * 50 * 65535), clamped.
\* 50 / 1000000 is written 1 / 20000 to stay within 32-bit integers; no
\* pulse in 1000..2000 makes the quotient a whole number, so truncation of
\* the float and of the exact quotient agree.
ws_pulse_to_bits(pulse_us) ==
    (Max(WS_SERVO_MIN_PULSE, Min(WS_SERVO_MAX_PULSE, pulse_us)) * 65535)
        \div 20000

\* webserver.py throttle_to_pulse; t is in tenths, clamped to [-10, 10].
ws_throttle_to_pulse(t) ==
    WS_SERVO_NEUTRAL
        + (Max(-10, Min(10, t)) * (WS_SERVO_MAX_PULSE - WS_SERVO_NEUTRAL)) \div 10

\* flask-direct-server.py throttle_to_pulse: int(375 + t * 225 / 2).
throttle_to_pulse(t) ==
    (20 * SERVO_NEUTRAL
        + Max(-10, Min(10, t)) * (SERVO_MAX_PULSE - SERVO_NEUTRAL)) \div 20

\* flask-direct-server.py set_servo_pulse: the off-count written by set_pwm.
set_servo_pulse(pulse) == Max(SERVO_MIN_PULSE, Min(SERVO_MAX_PULSE, pulse))

\* webserver.py angle_to_pulse: int(1000 + (angle / 180) * 1000), the angle
\* clamped to [0, 180].  For every angle in 0..180 the float expression and
\* the exact quotient truncate to the same integer.
ws_angle_to_pulse(angle) ==
    (180 * WS_SERVO_MIN_PULSE
        + Max(0, Min(180, angle)) * (WS_SERVO_MAX_PULSE - WS_SERVO_MIN_PULSE))
        \div 180

\* flask-direct-server.py angle_to_pulse: int(150 + (angle / 180) * 450).
angle_to_pulse(angle) ==
    (180 * SERVO_MIN_PULSE
        + Max(0, Min(180, angle)) * (SERVO_MAX_PULSE - SERVO_MIN_PULSE))
        \div 180

\* webserver.py on_lift(angle): the duty cycle it writes to channel 4.
on_lift(angle) == ws_pulse_to_bits(ws_angle_to_pulse(Max(0, Min(180, angle))))

\* set_lift with the pulse handed to set_pwm as computed from the angle it
\* was given, no clamp applied on the way.
set_lift_unclamped(angle) ==
    (180 * SERVO_MIN_PULSE + angle * (SERVO_MAX_PULSE - SERVO_MIN_PULSE))
        \div 180

\* flask-direct-server.py set_lift(angle): the off-count written to channel 4.
set_lift(angle) == set_servo_pulse(angle_to_pulse(Max(0, Min(180, angle))))

\* What the lift handler writes to channel 4 for an angle.
LiftValue(angle) == IF variant = "ws" THEN on_lift(angle) ELSE set_lift(angle)

\* What move_loop writes to a channel for a non-zero threshold t.
ThrottleValue(t) ==
    IF variant = "ws" THEN ws_pulse_to_bits(ws_throttle_to_pulse(t))
    ELSE set_servo_pulse(throttle_to_pulse(t))

\* The value of a stopped channel: duty_cycle = 0 / set_pwm(i, 0, 0).
Off == 0

ZeroVec == <<0, 0, 0, 0>>
AllOff == [w \in Wheels |-> Off]

(***************************************************************************)
(* Presets of flask-direct-server.py and the command inputs.               *)
(***************************************************************************)
Preset(direction) ==
    CASE direction = "forward"  -> <<5, -5, 5, -5>>
      [] direction = "backward" -> <<-5, 5, -5, 5>>
      [] direction = "left"     -> <<5, 5, 5, 5>>
      [] direction = "right"    -> <<-5, -5, -5, -5>>

\* A command of the transport: its event name and payload (dir and vec of a
\* move, channel n and value v of a diagnostic).
Cmd(name, dir, vec, n, v) ==
    [cmd |-> name, dir |-> dir, vec |-> vec, n |-> n, v |-> v]

\* move with a direction name (flask-direct-server.py handle_move).
MoveDir(d) == Cmd("move", d, Preset(d), 0, 0)
\* move with a threshold vector (webserver.py on_move); 20 is clamped to 10.
MoveVec(vec) == Cmd("move", "move", vec, 0, 0)
StopCmd == Cmd("stop", "None", <<>>, 0, 0)
DisconnectCmd == Cmd("disconnect", "None", <<>>, 0, 0)
DiagCmd(k, v) == Cmd("diag", "None", <<>>, k, v)
\* lift with an angle in degrees.
LiftCmd(a) == Cmd("lift", "None", <<>>, a, 0)

\* The direction names handle_move knows.
DirectionNames == {"forward", "backward", "left", "right"}

\* A string as a move payload of webserver.py.  An element of a payload is a
\* number (a throttle in tenths, far below 1000) or a character, written
\* 1000 + its code point to keep the two kinds apart within the integers.
Chars(name) ==
    CASE name = "sideways" ->
        <<1115, 1105, 1100, 1101, 1119, 1097, 1121, 1115>>
IsChar(w) == w >= 1000

\* move with a payload that is no known direction name: the string reaches
\* start_movement as thresholds in webserver.py, and handle_move compares
\* it with the names it knows in flask-direct-server.py.
MoveStr(name) == Cmd("move", "move", Chars(name), 0, 0)
MoveOther(name) == Cmd("move", name, <<>>, 0, 0)

\* The commands a client of each variant sends in the model.
WsMove == MoveVec(<<5, 0, -5, 20>>)
FlaskCmds == {MoveDir("left"), MoveDir("right"), StopCmd, DisconnectCmd}
WsCmds == {WsMove, StopCmd, DisconnectCmd,
           DiagCmd(0, 5), DiagCmd(3, 0)}

\* The sequences of at most n commands over S.
RECURSIVE SeqsUpTo(_, _)
SeqsUpTo(S, n) ==
    IF n = 0 THEN {<<>>}
    ELSE LET shorter == SeqsUpTo(S, n - 1) IN
         shorter \cup {<<c>> \o q : c \in S, q \in {r \in shorter : Len(r) = n - 1}}

(***************************************************************************)
(* Frames.                                                                 *)
(***************************************************************************)
\* op: the handler (or "timer" for a watchdog callback); pc: its position;
\* dir, vec: the arguments of start_movement; n: the number of the move (the
\* id of the thread and of the timer it creates) or the diagnostic channel;
\* v: the diagnostic value; i: the index of a for loop; jt: the thread
\* object a join was called on; was: whether movement was True when the
\* event arrived (kept for the disconnect event only).
IdleFrame == [op |-> "idle", pc |-> "idle", dir |-> "None", vec |-> <<>>,
              n |-> 0, v |-> 0, i |-> 0, jt |-> 0, was |-> FALSE]
DoneFrame == [IdleFrame EXCEPT !.op = "timer", !.pc = "done"]

NewLoop == [st |-> "unused", pc |-> "while", i |-> 0, val |-> 0]

\* The state after the module has been loaded, a client of variant v that
\* will send one of the command sequences of `scripts` being connected.
Start(v, scripts) ==
    /\ variant = v
    /\ movement = FALSE
    /\ movement_thread = 0
    /\ current_direction = "None"
    /\ wheel_thresholds = ZeroVec
    /\ stop_timer = 0
    /\ channels = AllOff
    /\ lift_channel = Off
    /\ loops = [t \in Threads |-> NewLoop]
    /\ timers = [t \in Timers |-> "unused"]
    /\ ex = [e \in Execs |-> IdleFrame]
    /\ script \in scripts
    /\ pos = 0
    /\ nmove = 0
    /\ raised = {}

\* Every sequence of at most MaxCmds commands, in either variant.
Init ==
    \/ Start("ws", SeqsUpTo(WsCmds, MaxCmds))
    \/ Start("flask", SeqsUpTo(FlaskCmds, MaxCmds))

(***************************************************************************)
(* The transport delivers a command to a free handler thread.              *)
(***************************************************************************)
\* The next command of the run.
Arriving == script[pos + 1]

\* The transport hands the next command, one of event `name`, to the free
\* handler thread h.
Next_cmd(h, name) ==
    /\ ex[h].op = "idle"
    /\ pos < Len(script)
    /\ Arriving.cmd = name
    /\ pos' = pos + 1
    /\ UNCHANGED script

\* on_move(thresholds) / handle_move(direction) with a known direction.
CmdMove(h) ==
    /\ Next_cmd(h, "move")
    /\ variant = "flask" => Arriving.dir \in DirectionNames
    /\ nmove < MaxMoves
    /\ ex' = [ex EXCEPT ![h] =
                [IdleFrame EXCEPT
                    !.op = "move", !.pc = "m_thr", !.n = nmove + 1,
                    !.dir = Arriving.dir, !.vec = Arriving.vec]]
    /\ nmove' = nmove + 1
    /\ UNCHANGED <<variant, lift_channel, globals, channels, loops, timers, raised>>

\* on_stop() / handle_move('stop').
CmdStop(h) ==
    /\ Next_cmd(h, "stop")
    /\ ex' = [ex EXCEPT ![h] = [IdleFrame EXCEPT !.op = "stop", !.pc = "s_mov"]]
    /\ UNCHANGED <<variant, lift_channel, globals, channels, loops, timers, nmove, raised>>

\* disconnect() only prints; handle_disconnect() calls stop_movement().
CmdDisconnect(h) ==
    /\ Next_cmd(h, "disconnect")
    /\ ex' = [ex EXCEPT ![h] =
                [IdleFrame EXCEPT
                    !.op = "disconnect", !.was = movement,
                    !.pc = IF variant = "ws" THEN "x_print" ELSE "s_mov"]]
    /\ UNCHANGED <<variant, lift_channel, globals, channels, loops, timers, nmove, raised>>

\* on_servo_0 .. on_servo_3(value): webserver.py only.
CmdDiag(h) ==
    /\ Next_cmd(h, "diag")
    /\ variant = "ws"
    /\ ex' = [ex EXCEPT ![h] =
                [IdleFrame EXCEPT
                    !.op = "diag", !.pc = "d_mov",
                    !.n = Arriving.n, !.v = Arriving.v]]
    /\ UNCHANGED <<variant, lift_channel, globals, channels, loops, timers, nmove, raised>>

\* handle_move(direction) with a direction that matches no branch.
CmdMoveOther(h) ==
    /\ Next_cmd(h, "move")
    /\ variant = "flask" /\ Arriving.dir \notin DirectionNames
    /\ ex' = [ex EXCEPT ![h] =
                [IdleFrame EXCEPT !.op = "move", !.pc = "m_none",
                                  !.dir = Arriving.dir]]
    /\ UNCHANGED <<variant, lift_channel, globals, channels, loops, timers,
                   nmove, raised>>

\* on_lift(angle) / handle_lift(angle).
CmdLift(h) ==
    /\ Next_cmd(h, "lift")
    /\ ex' = [ex EXCEPT ![h] =
                [IdleFrame EXCEPT !.op = "lift", !.pc = "f_set",
                                  !.n = Arriving.n]]
    /\ UNCHANGED <<variant, lift_channel, globals, channels, loops, timers,
                   nmove, raised>>

(***************************************************************************)
(* How a frame ends.                                                       *)
(***************************************************************************)
\* The frame of e once its handler or callback has ended.
Ended(e) == IF e \in Timers THEN DoneFrame ELSE IdleFrame

\* The handler or callback of e returns.
Return(e) == ex' = [ex EXCEPT ![e] = Ended(e)]

\* The handler or callback of e ends by an exception.
Raise(e, what) ==
    /\ ex' = [ex EXCEPT ![e] = Ended(e)]
    /\ raised' = raised \cup {what}

Goto(e, pc) == ex' = [ex EXCEPT ![e].pc = pc]

\* threading.Thread.join() called on movement_thread as read at the call:
\* None has no join, an unstarted thread refuses it, otherwise the caller
\* waits at pc `wait` for that thread object.
CallJoin(e, wait) ==
    IF movement_thread = 0
    THEN Raise(e, "join on None")
    ELSE IF loops[movement_thread].st = "created"
    THEN Raise(e, "join before start")
    ELSE /\ ex' = [ex EXCEPT ![e].pc = wait, ![e].jt = movement_thread]
         /\ UNCHANGED raised

\* threading.Timer.cancel() sets the timer's finished event: a timer that
\* has not fired never will; one whose function already runs is not stopped
\* (by = "move" keeps that the cancel was the one of a move handler).
Cancel(t, by) ==
    timers' = [timers EXCEPT ![t] =
                  CASE @ = "created" -> "cancelled_created"
                    [] @ = "pending" -> "cancelled"
                    [] @ = "fired" /\ by = "move" -> "fired_replaced"
                    [] OTHER -> @]

(***************************************************************************)
(* stop_movement(), run by a stop or disconnect handler or by a watchdog   *)
(* timer's thread.  webserver.py only clears stop_timer at its end;        *)
(* flask-direct-server.py cancels it first.                                *)
(***************************************************************************)
InStop(e) == ex[e].op \in {"stop", "disconnect", "timer"}

\* movement = False
S_mov(e) ==
    /\ InStop(e) /\ ex[e].pc = "s_mov"
    /\ movement' = FALSE
    /\ ex' = [ex EXCEPT ![e].pc = "s_zero", ![e].i = 0]
    /\ UNCHANGED <<variant, lift_channel, movement_thread, current_direction,
                   wheel_thresholds, stop_timer, channels, loops, timers,
                   script, pos, nmove, raised>>

\* for i in range(4): channel i off
S_zero(e) ==
    /\ InStop(e) /\ ex[e].pc = "s_zero"
    /\ channels' = [channels EXCEPT ![ex[e].i] = Off]
    /\ ex' = IF ex[e].i = 3
             THEN [ex EXCEPT ![e].pc = "s_chk", ![e].i = 0]
             ELSE [ex EXCEPT ![e].i = @ + 1]
    /\ UNCHANGED <<variant, lift_channel, globals, loops, timers, script, pos, nmove, raised>>

\* Where stop_movement goes on after the thread part.
AfterThread == IF variant = "ws" THEN "s_tclr" ELSE "s_tchk"

\* if movement_thread:
S_chk(e) ==
    /\ InStop(e) /\ ex[e].pc = "s_chk"
    /\ Goto(e, IF movement_thread /= 0 THEN "s_join" ELSE AfterThread)
    /\ UNCHANGED <<variant, lift_channel, globals, channels, loops, timers, script, pos, nmove,
                   raised>>

\* movement_thread.join(): the call
S_join(e) ==
    /\ InStop(e) /\ ex[e].pc = "s_join"
    /\ CallJoin(e, "s_wait")
    /\ UNCHANGED <<variant, lift_channel, globals, channels, loops, timers, script, pos, nmove>>

\* movement_thread.join(): the joined thread has ended
S_wait(e) ==
    /\ InStop(e) /\ ex[e].pc = "s_wait"
    /\ loops[ex[e].jt].st = "done"
    /\ ex' = [ex EXCEPT ![e].pc = "s_clr", ![e].jt = 0]
    /\ UNCHANGED <<variant, lift_channel, globals, channels, loops, timers, script, pos, nmove,
                   raised>>

\* movement_thread = None
S_clr(e) ==
    /\ InStop(e) /\ ex[e].pc = "s_clr"
    /\ movement_thread' = 0
    /\ Goto(e, AfterThread)
    /\ UNCHANGED <<variant, lift_channel, movement, current_direction, wheel_thresholds,
                   stop_timer, channels, loops, timers, script, pos, nmove, raised>>

\* flask-direct-server.py: if stop_timer:
S_tchk(e) ==
    /\ InStop(e) /\ ex[e].pc = "s_tchk"
    /\ Goto(e, IF stop_timer /= 0 THEN "s_tcancel" ELSE "s_tclr")
    /\ UNCHANGED <<variant, lift_channel, globals, channels, loops, timers, script, pos, nmove,
                   raised>>

\* flask-direct-server.py: stop_timer.cancel()
S_tcancel(e) ==
    /\ InStop(e) /\ ex[e].pc = "s_tcancel"
    /\ IF stop_timer = 0
       THEN Raise(e, "cancel on None") /\ UNCHANGED timers
       ELSE Cancel(stop_timer, "stop") /\ Goto(e, "s_tclr") /\ UNCHANGED raised
    /\ UNCHANGED <<variant, lift_channel, globals, channels, loops, script, pos, nmove>>

\* stop_timer = None, and stop_movement returns
S_tclr(e) ==
    /\ InStop(e) /\ ex[e].pc = "s_tclr"
    /\ stop_timer' = 0
    /\ Return(e)
    /\ UNCHANGED <<variant, lift_channel, movement, movement_thread, current_direction,
                   wheel_thresholds, channels, loops, timers, script, pos, nmove,
                   raised>>

\* webserver.py disconnect(): print only
X_print(h) ==
    /\ ex[h].op = "disconnect" /\ ex[h].pc = "x_print"
    /\ Return(h)
    /\ UNCHANGED <<variant, lift_channel, globals, channels, loops, timers, script, pos, nmove,
                   raised>>

(***************************************************************************)
(* The watchdog: threading.Timer(0.6, stop_movement).                      *)
(***************************************************************************)
\* The window of a started timer elapses before any cancel: its thread
\* calls stop_movement.
TimerFire(t) ==
    /\ timers[t] = "pending"
    /\ timers' = [timers EXCEPT ![t] = "fired"]
    /\ ex' = [ex EXCEPT ![t] = [IdleFrame EXCEPT !.op = "timer", !.pc = "s_mov"]]
    /\ UNCHANGED <<variant, lift_channel, globals, channels, loops, script, pos, nmove, raised>>

(***************************************************************************)
(* The move handler: start_movement(direction, thresholds), then the       *)
(* watchdog is cancelled and armed again.                                  *)
(***************************************************************************)
InMove(h) == ex[h].op = "move"

\* if thresholds: wheel_thresholds = thresholds
M_thr(h) ==
    /\ InMove(h) /\ ex[h].pc = "m_thr"
    /\ wheel_thresholds' = IF ex[h].vec /= <<>> THEN ex[h].vec
                           ELSE wheel_thresholds
    /\ Goto(h, "m_chk")
    /\ UNCHANGED <<variant, lift_channel, movement, movement_thread, current_direction,
                   stop_timer, channels, loops, timers, script, pos, nmove, raised>>

\* if not movement:
M_chk(h) ==
    /\ InMove(h) /\ ex[h].pc = "m_chk"
    /\ Goto(h, IF ~movement THEN "m_setmov" ELSE "m_switch")
    /\ UNCHANGED <<variant, lift_channel, globals, channels, loops, timers, script, pos, nmove,
                   raised>>

\* movement = True
M_setmov(h) ==
    /\ InMove(h) /\ ex[h].pc = "m_setmov"
    /\ movement' = TRUE
    /\ Goto(h, "m_dir")
    /\ UNCHANGED <<variant, lift_channel, movement_thread, current_direction,
                   wheel_thresholds, stop_timer, channels, loops, timers,
                   script, pos, nmove, raised>>

\* current_direction = direction (in the branch that starts a thread)
M_dir(h) ==
    /\ InMove(h) /\ ex[h].pc = "m_dir"
    /\ current_direction' = ex[h].dir
    /\ Goto(h, "m_mkthr")
    /\ UNCHANGED <<variant, lift_channel, movement, movement_thread, wheel_thresholds,
                   stop_timer, channels, loops, timers, script, pos, nmove, raised>>

\* movement_thread = threading.Thread(target=move_loop)
M_mkthr(h) ==
    /\ InMove(h) /\ ex[h].pc = "m_mkthr"
    /\ loops' = [loops EXCEPT ![ex[h].n].st = "created"]
    /\ movement_thread' = ex[h].n
    /\ Goto(h, "m_start")
    /\ UNCHANGED <<variant, lift_channel, movement, current_direction, wheel_thresholds,
                   stop_timer, channels, timers, script, pos, nmove, raised>>

\* movement_thread.start(), on the global as read now
M_start(h) ==
    /\ InMove(h) /\ ex[h].pc = "m_start"
    /\ IF movement_thread = 0
       THEN Raise(h, "start on None") /\ UNCHANGED loops
       ELSE IF loops[movement_thread].st /= "created"
       THEN Raise(h, "thread started twice") /\ UNCHANGED loops
       ELSE /\ loops' = [loops EXCEPT ![movement_thread].st = "alive"]
            /\ Goto(h, "m_tchk")
            /\ UNCHANGED raised
    /\ UNCHANGED <<variant, lift_channel, globals, channels, timers, script, pos, nmove>>

\* else: current_direction = direction
M_switch(h) ==
    /\ InMove(h) /\ ex[h].pc = "m_switch"
    /\ current_direction' = ex[h].dir
    /\ Goto(h, "m_tchk")
    /\ UNCHANGED <<variant, lift_channel, movement, movement_thread, wheel_thresholds,
                   stop_timer, channels, loops, timers, script, pos, nmove, raised>>

\* if stop_timer:
M_tchk(h) ==
    /\ InMove(h) /\ ex[h].pc = "m_tchk"
    /\ Goto(h, IF stop_timer /= 0 THEN "m_tcancel" ELSE "m_tnew")
    /\ UNCHANGED <<variant, lift_channel, globals, channels, loops, timers, script, pos, nmove,
                   raised>>

\* stop_timer.cancel()
M_tcancel(h) ==
    /\ InMove(h) /\ ex[h].pc = "m_tcancel"
    /\ IF stop_timer = 0
       THEN Raise(h, "cancel on None") /\ UNCHANGED timers
       ELSE Cancel(stop_timer, "move") /\ Goto(h, "m_tnew") /\ UNCHANGED raised
    /\ UNCHANGED <<variant, lift_channel, globals, channels, loops, script, pos, nmove>>

\* stop_timer = threading.Timer(0.6, stop_movement)
M_tnew(h) ==
    /\ InMove(h) /\ ex[h].pc = "m_tnew"
    /\ timers' = [timers EXCEPT ![ex[h].n] = "created"]
    /\ stop_timer' = ex[h].n
    /\ Goto(h, "m_tstart")
    /\ UNCHANGED <<variant, lift_channel, movement, movement_thread, current_direction,
                   wheel_thresholds, channels, loops, script, pos, nmove, raised>>

\* stop_timer.start(), on the global as read now; the handler returns
M_tstart(h) ==
    /\ InMove(h) /\ ex[h].pc = "m_tstart"
    /\ IF stop_timer = 0
       THEN Raise(h, "start on None") /\ UNCHANGED timers
       ELSE IF timers[stop_timer] \notin {"created", "cancelled_created"}
       THEN Raise(h, "timer started twice") /\ UNCHANGED timers
       ELSE /\ timers' = [timers EXCEPT ![stop_timer] =
                            IF @ = "created" THEN "pending" ELSE "cancelled"]
            /\ Return(h)
            /\ UNCHANGED raised
    /\ UNCHANGED <<variant, lift_channel, globals, channels, loops, script, pos, nmove>>

(***************************************************************************)
(* move_loop(), one thread per threading.Thread started.                   *)
(***************************************************************************)
Alive(t) == loops[t].st = "alive"

\* The condition under which an iteration writes the channels.
Asserting ==
    /\ IF variant = "ws" THEN current_direction = "move"
       ELSE current_direction /= "None"
    /\ wheel_thresholds /= <<>>

\* The loop's position after wheel i: the next wheel, or sleep and while.
NextWheel(l) ==
    IF l.i = 3 THEN [l EXCEPT !.pc = "while", !.i = 0, !.val = 0]
    ELSE [l EXCEPT !.pc = "read", !.i = @ + 1, !.val = 0]

\* while movement: if current_direction ... and wheel_thresholds:
\* (current_direction is set before any thread is started and never reset,
\* and wheel_thresholds is never empty, so the reads of the if cannot differ
\* from what they are at the read of movement; time.sleep(0.01) follows an
\* iteration that writes nothing.)
L_while(t) ==
    /\ Alive(t) /\ loops[t].pc = "while"
    /\ loops' = IF ~movement THEN [loops EXCEPT ![t].st = "done"]
                ELSE IF Asserting THEN [loops EXCEPT ![t].pc = "read"]
                ELSE loops
    /\ UNCHANGED <<variant, lift_channel, globals, channels, timers, ex, script, pos, nmove, raised>>

\* move_loop without its branch for a threshold of 0: every wheel gets the
\* pulse of its threshold.
L_read_no_zero_branch(t) ==
    /\ Alive(t) /\ loops[t].pc = "read"
    /\ LET w == wheel_thresholds[loops[t].i + 1] IN
       IF IsChar(w)
       THEN /\ loops' = [loops EXCEPT ![t].st = "done"]
            /\ raised' = raised \cup {"TypeError in move_loop"}
       ELSE /\ loops' = [loops EXCEPT ![t].pc = "write",
                            ![t].val = ThrottleValue(w)]
            /\ UNCHANGED raised
    /\ UNCHANGED <<variant, lift_channel, globals, channels, timers, ex,
                   script, pos, nmove>>

\* if wheel_thresholds[i] == 0: ... else: pulse = throttle_to_pulse(...)
L_read(t) ==
    /\ Alive(t) /\ loops[t].pc = "read"
    /\ LET w == wheel_thresholds[loops[t].i + 1] IN
       IF IsChar(w)
       THEN \* min(1.0, 's') raises TypeError: the thread ends
            /\ loops' = [loops EXCEPT ![t].st = "done"]
            /\ raised' = raised \cup {"TypeError in move_loop"}
       ELSE /\ loops' = [loops EXCEPT ![t].pc = "write",
                            ![t].val = IF w = 0 THEN Off ELSE ThrottleValue(w)]
            /\ UNCHANGED raised
    /\ UNCHANGED <<variant, lift_channel, globals, channels, timers, ex,
                   script, pos, nmove>>

\* channel i off, or channel i = the pulse
L_write(t) ==
    /\ Alive(t) /\ loops[t].pc = "write"
    /\ channels' = [channels EXCEPT ![loops[t].i] = loops[t].val]
    /\ loops' = [loops EXCEPT ![t] = NextWheel(@)]
    /\ UNCHANGED <<variant, lift_channel, globals, timers, ex, script, pos, nmove, raised>>

(***************************************************************************)
(* The diagnostic handlers on_servo_0 .. on_servo_3 of webserver.py; the   *)
(* channel is ex[h].n and the value ex[h].v.                               *)
(***************************************************************************)
InDiag(h) == ex[h].op = "diag"

\* What the handler writes to its channel for value v.
DiagValue(v) == IF v = 0 THEN Off ELSE ws_pulse_to_bits(ws_throttle_to_pulse(v))

\* movement = False
D_mov(h) ==
    /\ InDiag(h) /\ ex[h].pc = "d_mov"
    /\ movement' = FALSE
    /\ Goto(h, "d_chk")
    /\ UNCHANGED <<variant, lift_channel, movement_thread, current_direction,
                   wheel_thresholds, stop_timer, channels, loops, timers,
                   script, pos, nmove, raised>>

\* if movement_thread:
D_chk(h) ==
    /\ InDiag(h) /\ ex[h].pc = "d_chk"
    /\ Goto(h, IF movement_thread /= 0 THEN "d_join" ELSE "d_zero")
    /\ UNCHANGED <<variant, lift_channel, globals, channels, loops, timers, script, pos, nmove,
                   raised>>

\* movement_thread.join(): the call
D_join(h) ==
    /\ InDiag(h) /\ ex[h].pc = "d_join"
    /\ CallJoin(h, "d_wait")
    /\ UNCHANGED <<variant, lift_channel, globals, channels, loops, timers, script, pos, nmove>>

\* movement_thread.join(): the joined thread has ended
D_wait(h) ==
    /\ InDiag(h) /\ ex[h].pc = "d_wait"
    /\ loops[ex[h].jt].st = "done"
    /\ ex' = [ex EXCEPT ![h].pc = "d_clr", ![h].jt = 0]
    /\ UNCHANGED <<variant, lift_channel, globals, channels, loops, timers, script, pos, nmove,
                   raised>>

\* movement_thread = None
D_clr(h) ==
    /\ InDiag(h) /\ ex[h].pc = "d_clr"
    /\ movement_thread' = 0
    /\ Goto(h, "d_zero")
    /\ UNCHANGED <<variant, lift_channel, movement, current_direction, wheel_thresholds,
                   stop_timer, channels, loops, timers, script, pos, nmove, raised>>

\* for i in range(4): channel i off (before the pulse)
D_zero(h) ==
    /\ InDiag(h) /\ ex[h].pc = "d_zero"
    /\ channels' = [channels EXCEPT ![ex[h].i] = Off]
    /\ ex' = IF ex[h].i = 3
             THEN [ex EXCEPT ![h].pc = "d_set", ![h].i = 0]
             ELSE [ex EXCEPT ![h].i = @ + 1]
    /\ UNCHANGED <<variant, lift_channel, globals, loops, timers, script, pos, nmove, raised>>

\* channel k off if value == 0, else the pulse of value
D_set(h) ==
    /\ InDiag(h) /\ ex[h].pc = "d_set"
    /\ channels' = [channels EXCEPT ![ex[h].n] = DiagValue(ex[h].v)]
    /\ Goto(h, "d_sleep")
    /\ UNCHANGED <<variant, lift_channel, globals, loops, timers, script, pos, nmove, raised>>

\* time.sleep(1) ends
D_sleep(h) ==
    /\ InDiag(h) /\ ex[h].pc = "d_sleep"
    /\ Goto(h, "d_fin")
    /\ UNCHANGED <<variant, lift_channel, globals, channels, loops, timers, script, pos, nmove,
                   raised>>

\* for i in range(4): channel i off (after the dwell); the handler returns
D_fin(h) ==
    /\ InDiag(h) /\ ex[h].pc = "d_fin"
    /\ channels' = [channels EXCEPT ![ex[h].i] = Off]
    /\ ex' = IF ex[h].i = 3 THEN [ex EXCEPT ![h] = Ended(h)]
             ELSE [ex EXCEPT ![h].i = @ + 1]
    /\ UNCHANGED <<variant, lift_channel, globals, loops, timers, script, pos, nmove, raised>>

(***************************************************************************)
(* The lift handler, and a move that handle_move does not know.            *)
(***************************************************************************)
\* The lift handler writing its pulse to channel 3, a drive wheel, instead
\* of channel 4.
LiftWrite_channel3(h) ==
    /\ ex[h].op = "lift" /\ ex[h].pc = "f_set"
    /\ channels' = [channels EXCEPT ![3] = LiftValue(ex[h].n)]
    /\ Return(h)
    /\ UNCHANGED <<variant, lift_channel, globals, loops, timers, script, pos,
                   nmove, raised>>

\* angle = max(0, min(180, angle)); channel 4 = the pulse of the angle; the
\* handler returns
LiftWrite(h) ==
    /\ ex[h].op = "lift" /\ ex[h].pc = "f_set"
    /\ lift_channel' = LiftValue(ex[h].n)
    /\ Return(h)
    /\ UNCHANGED <<variant, globals, channels, loops, timers, script, pos,
                   nmove, raised>>

\* no branch of the if / elif chain matches: handle_move returns
M_none(h) ==
    /\ InMove(h) /\ ex[h].pc = "m_none"
    /\ Return(h)
    /\ UNCHANGED <<variant, lift_channel, globals, channels, loops, timers,
                   script, pos, nmove, raised>>

(***************************************************************************)
(* The program.                                                            *)
(***************************************************************************)
Deliver ==
    \E h \in Handlers :
        \/ CmdMove(h)
        \/ CmdStop(h)
        \/ CmdDisconnect(h)
        \/ CmdDiag(h)

StopStep ==
    \E e \in Execs :
        \/ S_mov(e) \/ S_zero(e) \/ S_chk(e) \/ S_join(e) \/ S_wait(e)
        \/ S_clr(e) \/ S_tchk(e) \/ S_tcancel(e) \/ S_tclr(e)

MoveStep ==
    \E h \in Handlers :
        \/ M_thr(h) \/ M_chk(h) \/ M_setmov(h) \/ M_dir(h) \/ M_mkthr(h)
        \/ M_start(h) \/ M_switch(h) \/ M_tchk(h) \/ M_tcancel(h)
        \/ M_tnew(h) \/ M_tstart(h)

DiagStep ==
    \E h \in Handlers :
        \/ D_mov(h) \/ D_chk(h) \/ D_join(h) \/ D_wait(h) \/ D_clr(h)
        \/ D_zero(h) \/ D_set(h) \/ D_sleep(h) \/ D_fin(h)

LoopStep ==
    \E t \in Threads :
        \/ L_while(t) \/ L_read(t) \/ L_write(t)

Fire == \E t \in Timers : TimerFire(t)

HandlerStep == StopStep \/ MoveStep \/ DiagStep \/ (\E h \in Handlers : X_print(h))

Next == Deliver \/ HandlerStep \/ LoopStep \/ Fire

Spec == Init /\ [][Next]_vars

(***************************************************************************)
(* Longer runs: a move after a stop, and three moves in a row.             *)
(***************************************************************************)
\* move with thresholds [0, 0, 0, 0]: the loop asserts four stopped wheels.
WsHold == MoveVec(ZeroVec)

InitLong ==
    \/ Start("ws", {<<WsMove, StopCmd, WsMove>>, <<WsHold, WsHold, WsHold>>})
    \/ Start("flask", {<<MoveDir("left"), StopCmd, MoveDir("right")>>})

NextLong ==
    \/ \E h \in Handlers : CmdMove(h) \/ CmdStop(h)
    \/ StopStep \/ MoveStep \/ LoopStep \/ Fire

SpecLong == InitLong /\ [][NextLong]_vars

(***************************************************************************)
(* Runs with one move command: every threshold vector over a few           *)
(* throttles, a lift before or after the move, and a move whose payload    *)
(* is no direction name.                                                   *)
(***************************************************************************)
\* The largest throttle a client sends, in tenths (beyond the clamp at 10),
\* and how far beyond [0, 180] the angles of its lift commands go.
MaxThrottle == 20
AngleMargin == 20

LoopThrottles == {0 - MaxThrottle, -5, 0, 5, MaxThrottle}
LoopVecs == {<<a, b, c, d>> : a \in LoopThrottles, b \in LoopThrottles,
                              c \in LoopThrottles, d \in LoopThrottles}
LiftAngles == (0 - AngleMargin)..(180 + AngleMargin)
SomeAngles == {0 - AngleMargin, 90, 180 + AngleMargin}

InitInput ==
    \/ Start("ws", {<<MoveVec(vec)>> : vec \in LoopVecs}
                    \cup {<<WsMove, LiftCmd(a)>> : a \in SomeAngles}
                    \cup {<<LiftCmd(a), WsMove>> : a \in SomeAngles}
                    \cup {<<MoveStr("sideways")>>})
    \/ Start("flask", {<<MoveDir(d)>> : d \in DirectionNames}
                       \cup {<<MoveDir("forward"), LiftCmd(a)>> : a \in SomeAngles}
                       \cup {<<LiftCmd(a), MoveDir("backward")>> : a \in SomeAngles}
                       \cup {<<MoveOther("sideways")>>,
                             <<MoveDir("left"), MoveOther("sideways")>>})

\* A run with one move never finds movement True or a timer armed in
\* start_movement and the handler: M_switch and M_tcancel have no part.
NextInput ==
    \/ \E h \in Handlers :
          \/ CmdMove(h) \/ CmdMoveOther(h) \/ CmdLift(h)
          \/ M_thr(h) \/ M_chk(h) \/ M_setmov(h) \/ M_dir(h) \/ M_mkthr(h)
          \/ M_start(h) \/ M_tchk(h) \/ M_tnew(h) \/ M_tstart(h)
          \/ M_none(h) \/ LiftWrite(h)
    \/ StopStep \/ LoopStep \/ Fire

SpecInput == InitInput /\ [][NextInput]_vars

\* Lift commands alone, over every angle of LiftAngles.
InitLift ==
    \/ Start("ws", {<<LiftCmd(a)>> : a \in LiftAngles})
    \/ Start("flask", {<<LiftCmd(a)>> : a \in LiftAngles})

NextLift == \E h \in Handlers : CmdLift(h) \/ LiftWrite(h)

SpecLift == InitLift /\ [][NextLift]_vars

(***************************************************************************)
(* Actuator writes that fail: the write of a channel raises (an I/O error  *)
(* of the bus) instead of setting the channel.                             *)
(***************************************************************************)
\* The write of move_loop raises: nothing catches it, the thread ends.
L_fail(t) ==
    /\ Alive(t) /\ loops[t].pc = "write"
    /\ loops' = [loops EXCEPT ![t].st = "done"]
    /\ raised' = raised \cup {"write error in move_loop"}
    /\ UNCHANGED <<variant, lift_channel, globals, channels, timers, ex,
                   script, pos, nmove>>

\* A write of stop_movement's zeroing loop raises: the call ends there.
S_fail(e) ==
    /\ InStop(e) /\ ex[e].pc = "s_zero"
    /\ Raise(e, "write error in stop_movement")
    /\ UNCHANGED <<variant, lift_channel, globals, channels, loops, timers,
                   script, pos, nmove>>

WriteErrors == {"write error in move_loop", "write error in stop_movement"}

\* One move, or one move and a stop, on a bus whose writes may fail.
InitFault ==
    \/ Start("ws", {<<WsMove>>, <<WsMove, StopCmd>>})
    \/ Start("flask", {<<MoveDir("forward")>>, <<MoveDir("forward"), StopCmd>>})

NextFault ==
    \/ \E h \in Handlers :
          \/ CmdMove(h) \/ CmdStop(h)
          \/ M_thr(h) \/ M_chk(h) \/ M_setmov(h) \/ M_dir(h) \/ M_mkthr(h)
          \/ M_start(h) \/ M_tchk(h) \/ M_tnew(h) \/ M_tstart(h)
    \/ StopStep \/ LoopStep \/ Fire
    \/ \E t \in Threads : L_fail(t)
    \/ \E e \in Execs : S_fail(e)

SpecFault == InitFault /\ [][NextFault]_vars

(***************************************************************************)
(* Vocabulary of the claims.                                               *)
(***************************************************************************)
\* The move_loop threads that are alive (started and not yet ended).
AliveLoops == {t \in Threads : loops[t].st = "alive"}

\* The watchdog timers that are started, not cancelled and not yet fired.
PendingTimers == {t \in Timers : timers[t] = "pending"}

\* Executor e returns from stop_movement in this step.
StopReturns(e) == InStop(e) /\ ex[e].pc = "s_tclr" /\ ex'[e].pc /= "s_tclr"

\* Nothing but the drive loops can take a step any more: every command has
\* been delivered, no timer can fire and every handler and timer callback
\* has ended or waits in a join.
Quiet ==
    /\ pos = Len(script)
    /\ \A e \in Execs : ex[e].pc \in {"idle", "done", "s_wait", "d_wait"}
    /\ \A t \in Timers :
          timers[t] \notin {"created", "cancelled_created", "pending"}

\* Motion has stopped.
Stopped == ~movement /\ AliveLoops = {} /\ channels = AllOff

\* C1: at every moment at most one move_loop thread is alive.
C1_AtMostOneLoop == Cardinality(AliveLoops) <= 1

\* The run has one move command and no diagnostic command: the one drive
\* loop is the only writer of a value other than off.
OneDriveLoop ==
    /\ Cardinality({k \in DOMAIN script : script[k].cmd = "move"}) = 1
    /\ \A k \in DOMAIN script : script[k].cmd /= "diag"

\* C2: whenever a call of stop_movement returns, channels 0..3 are all off:
\* no write of the drive loop is the last write to a channel.
C2_StopLeavesChannelsOff ==
    [][\A e \in Execs :
          (OneDriveLoop /\ StopReturns(e)) => channels' = AllOff]_vars

\* C3: after the last move, when no further command arrives, motion stops:
\* once everything the run started has ended, movement is False, no drive
\* loop is alive and channels 0..3 are off.
C3_WatchdogStopsMotion ==
    (Quiet /\ script /= <<>> /\ script[Len(script)].cmd = "move"
        /\ \A e \in Execs : ex[e].pc \in {"idle", "done"})
    => Stopped

\* C4: at most one watchdog timer is pending in every reachable state.
C4_AtMostOnePending == Cardinality(PendingTimers) <= 1

\* The positions of stop_movement that write: movement, a channel,
\* movement_thread, stop_timer or the cancel of a timer.
StopEffects == {"s_mov", "s_zero", "s_clr", "s_tcancel", "s_tclr"}

\* C5: a timer a move handler has cancelled to re-arm the watchdog performs
\* no effect of stop_movement afterwards, and when the first of two moves'
\* timers was cancelled before it expired it never runs stop_movement.
C5_ReplacedTimerIsDead ==
    /\ [][\A t \in Timers :
            (timers[t] = "fired_replaced" /\ ex[t].pc \in StopEffects)
            => ex'[t] = ex[t]]_vars
    /\ [](\A t \in Timers : timers[t] = "cancelled" => ex[t] = IdleFrame)

\* C6: when the handler of a stop command returns, no watchdog timer is
\* pending.
C6_StopCancelsWatchdog ==
    [][\A h \in Handlers :
          (ex[h].op = "stop" /\ StopReturns(h)) => PendingTimers' = {}]_vars

\* C7: when the handler of a disconnect event that arrived while movement
\* was True returns, motion has stopped.
C7_DisconnectStops ==
    [][\A h \in Handlers :
          (ex[h].op = "disconnect" /\ ex[h].was /\ ex'[h].op = "idle")
          => Stopped']_vars

\* The channel values of a preset asserted on all four wheels.
Asserted(d) == [w \in Wheels |-> ThrottleValue(Preset(d)[w + 1])]

\* C8: move('left') then move('right') with no stop and no expiry between
\* them: no second thread exists, and each time the loop ends an iteration
\* the four channels hold one preset's vector.
C8_NoMixedVector ==
    (/\ variant = "flask"
     /\ script = <<MoveDir("left"), MoveDir("right")>>
     /\ timers[1] \notin {"fired", "fired_replaced"})
    => /\ loops[2].st = "unused"
       /\ (Alive(1) /\ loops[1].pc = "while")
          => channels \in {AllOff, Asserted("left"), Asserted("right")}

\* C9: no call of stop_movement waits in its join for ever: there is no
\* state in which only the drive loops can still step, movement is True and
\* a caller of stop_movement waits for a thread that is alive.
C9_JoinReturns ==
    ~(/\ Quiet
      /\ movement
      /\ \E e \in Execs : ex[e].pc = "s_wait" /\ loops[ex[e].jt].st = "alive")

\* C10: during the dwell of a diagnostic command (k, v) channel k holds the
\* pulse of v and the other three are off, and when the handler returns all
\* four are off.
C10_DiagnosticPulse ==
    /\ [](\A h \in Handlers :
            (InDiag(h) /\ ex[h].pc = "d_sleep")
            => channels = [AllOff EXCEPT ![ex[h].n] = DiagValue(ex[h].v)])
    /\ [][\A h \in Handlers :
            (InDiag(h) /\ ex'[h].op = "idle") => channels' = AllOff]_vars

\* A diagnostic handler is in flight: entered and not yet returned.
DiagInFlight == \E h \in Handlers : InDiag(h)

\* C11: while a diagnostic handler is in flight no move_loop thread is
\* started and nothing but the diagnostic handler writes a channel 0..3:
\* no caller of stop_movement performs one of its four writes and no drive
\* loop performs a write.
C11_DiagnosticExclusive ==
    [][DiagInFlight =>
          /\ \A t \in Threads : Alive(t)' => Alive(t)
          /\ \A e \in Execs : ex[e].pc = "s_zero" => ex'[e] = ex[e]
          /\ \A t \in Threads :
                (Alive(t) /\ loops[t].pc = "write") => loops'[t] = loops[t]]_vars

\* The command is a move whose payload is no known direction name.
UnknownMove(c) ==
    /\ c.cmd = "move"
    /\ IF variant = "ws" THEN c.vec /= <<>> /\ IsChar(c.vec[1])
       ELSE c.dir \notin DirectionNames

\* C12: a move whose payload is no known direction name is ignored: in a
\* run of that one command the motion state, the threads, the channels
\* and the timers stay as they were at the start, and nothing raises.
C12_UnknownMoveIgnored ==
    (Len(script) = 1 /\ UnknownMove(script[1]))
    => /\ ~movement /\ movement_thread = 0 /\ current_direction = "None"
       /\ wheel_thresholds = ZeroVec /\ stop_timer = 0
       /\ \A t \in Threads : loops[t].st = "unused"
       /\ \A t \in Timers : timers[t] = "unused"
       /\ channels = AllOff
       /\ raised = {}

\* An angle clamped to [0, 180].
ClampAngle(a) == Max(0, Min(180, a))

\* C13: when the handler of lift(a) returns, channel 4 holds the pulse that
\* lift writes for a clamped to [0, 180]: the pulse of lift(0) for a < 0 and
\* the pulse of lift(180) for a > 180.
C13_LiftClamped ==
    [][\A h \in Handlers :
          (ex[h].op = "lift" /\ ex'[h].op = "idle")
          => /\ lift_channel' = LiftValue(ClampAngle(ex[h].n))
             /\ ex[h].n < 0 => lift_channel' = LiftValue(0)
             /\ ex[h].n > 180 => lift_channel' = LiftValue(180)]_vars

\* C13 witness: lift commands with an angle below 0 and above 180 have
\* been handled and channel 4 holds the pulse of the nearer end.
C13_Witness ==
    /\ pos = 1 /\ script[1].cmd = "lift"
    /\ script[1].n > 180
    /\ \A h \in Handlers : ex[h].op = "idle"
    /\ lift_channel = LiftValue(180)
    /\ lift_channel /= LiftValue(90)

\* Handler h takes a step of a lift command: its delivery or its write.
LiftStep(h) ==
    (ex[h].op = "lift" \/ ex'[h].op = "lift") /\ ex'[h] /= ex[h]

\* C14: a step of a lift command, in whatever state it is taken, leaves
\* movement, movement_thread, current_direction, wheel_thresholds,
\* stop_timer, the drive loops, channels 0..3 and every timer unchanged.
C14_LiftFrame ==
    [][\A h \in Handlers :
          LiftStep(h) => /\ globals' = globals
                         /\ channels' = channels
                         /\ loops' = loops
                         /\ timers' = timers]_vars

\* C14 witness: a lift command has been handled while the robot drives:
\* movement is True, a drive loop is alive with wheels asserted and a
\* watchdog timer is pending.
C14_Witness ==
    /\ pos = 2 /\ script[2].cmd = "lift"
    /\ \A h \in Handlers : ex[h].op = "idle"
    /\ lift_channel = LiftValue(script[2].n) /\ lift_channel /= Off
    /\ movement /\ AliveLoops /= {} /\ PendingTimers /= {}
    /\ channels /= AllOff

\* C15: whenever a call of stop_movement returns, no move_loop thread is
\* alive and movement_thread is None.
C15_StopLeavesNoLoop ==
    [][\A e \in Execs :
          StopReturns(e) => (AliveLoops' = {} /\ movement_thread' = 0)]_vars

\* C16: once an actuator write has raised in the drive loop or in
\* stop_movement (the thread or the call it raised in has ended with it),
\* there is no state in which movement is True while no move_loop thread
\* is alive.
C16_FailedWriteStops ==
    (raised \cap WriteErrors /= {}) => ~(movement /\ AliveLoops = {})

\* No handler and no timer callback is in the middle of its execution.
NoneRunning == \A e \in Execs : ex[e].pc \in {"idle", "done"}

\* C17: in flask-direct-server.py, whenever a move_loop thread is alive and
\* no handler or timer callback is running, a watchdog timer is pending.
C17_DrivingIsWatched ==
    (variant = "flask" /\ AliveLoops /= {} /\ NoneRunning)
    => PendingTimers /= {}

\* C18: when a call of stop_movement returns, the motion state has its
\* initial idle value: movement False, current_direction None and
\* wheel_thresholds [0, 0, 0, 0].
C18_StopResetsState ==
    [][\A e \in Execs :
          StopReturns(e) => /\ ~movement'
                            /\ current_direction' = "None"
                            /\ wheel_thresholds' = ZeroVec]_vars

\* C19: no call of movement_thread.join() finds the handle set to None by
\* another caller of the check-then-join sequence: none raises.
C19_JoinNeverOnNone == "join on None" \notin raised

\* What an iteration is to leave on a wheel's channel for threshold w: off
\* for 0, otherwise the pulse of w clamped to [-1, 1].
Expected(w) == IF w = 0 THEN Off ELSE ThrottleValue(Max(-10, Min(10, w)))
ExpectedAll == [w \in Wheels |-> Expected(wheel_thresholds[w + 1])]

\* The drive loop t completes a write in this step.
LoopWrites(t) == Alive(t) /\ loops[t].pc = "write" /\ loops'[t].pc /= "write"

\* C20: while movement stays True and wheel_thresholds is as the one move
\* of the run set it, each write of the drive loop leaves on channel i off
\* for a threshold of 0 and otherwise the pulse of the clamped threshold;
\* each iteration ends with the four channels at those values, and once
\* they are there no step changes a channel.
C20_IterationAsserts ==
    /\ [][\A t \in Threads :
            (LoopWrites(t) /\ movement /\ movement')
            => /\ channels'[loops[t].i]
                    = Expected(wheel_thresholds[loops[t].i + 1])
               /\ loops[t].i = 3 => channels' = ExpectedAll]_vars
    /\ [][(movement /\ movement' /\ channels = ExpectedAll
            /\ \E t \in Threads : Alive(t) /\ loops[t].pc /= "while")
           => channels' = channels]_vars

\* C20 witness: the loop of webserver.py has ended an iteration over
\* [0.5, 0, -0.5, 2.0] with movement True: the channels hold the pulses of
\* 0.5, off, -0.5 and 1.0.
C20_Witness ==
    /\ variant = "ws" /\ wheel_thresholds = <<5, 0, -5, 20>>
    /\ movement
    /\ \E t \in Threads : Alive(t) /\ loops[t].pc = "while"
    /\ channels = [w \in Wheels |-> <<5734, 0, 4095, 6553>>[w + 1]]

====
